---- MODULE Spec2Model ----
(***************************************************************************)
(* goup: a Go version manager.  The model covers the version state engine  *)
(* of src/src/version.rs and the subcommands of src/src/main.rs: the       *)
(* persisted versions.json record, the per-version install directories,    *)
(* the activation symlink "go", and one action per subcommand.             *)
(*                                                                         *)
(* An Option<GoVersion> is modelled as a set with at most one element.     *)
(* The environment supplies, per operation, the reply of go.dev (net) and  *)
(* the I/O call of the operation that fails, if any (fault).  Downloads,   *)
(* unpacking, the symlink calls and the directory deletions can fail;      *)
(* versions.json is taken to be readable, and writable wherever the goup   *)
(* directory exists.                                                       *)
(*                                                                         *)
(* Spec is the program run one subcommand at a time.  SpecClean runs clean *)
(* alone on disks with one more version, SpecRace runs invocations side by *)
(* side, SpecParse formats and parses versions as texts.                   *)
(***************************************************************************)
EXTENDS Naturals, FiniteSets, Sequences

\* Number of distinct Go versions the model ranges over.
NumVersions == 2

\* Number of versions on the disks that clean alone is run on.
NumCleanVersions == 3

\* Number of invocations of goup that run side by side.
NumInvocations == 2

\* The greatest major, minor or patch number of the versions that are
\* formatted and parsed.
MaxComponent == 11

\* struct GoVersion { major, minor, patch }
GoVersion(ma, mi, pa) == [major |-> ma, minor |-> mi, patch |-> pa]

\* The first n versions of the model: go1.9.0, go1.10.0, go1.11.0, ...
VersionsUpTo(n) == {GoVersion(1, 8 + i, 0) : i \in 1..n}

\* The versions the subcommands are run on.
Versions == VersionsUpTo(NumVersions)

\* The decimal digits, in the order of their values.
Digits == <<"0", "1", "2", "3", "4", "5", "6", "7", "8", "9">>

\* \d of PARSING_REGEX, over the characters of the model.
IsDigit(c) == \E i \in 1..Len(Digits) : Digits[i] = c

\* The value of a digit.
DigitValue(c) == (CHOOSE i \in 1..Len(Digits) : Digits[i] = c) - 1

\* Display of a u32 as it would be if only the last digit were written.
ToDecimalLastDigit(n) == <<Digits[(n % 10) + 1]>>

\* Display of a u32: decimal, most significant digit first, no leading zero.
RECURSIVE ToDecimal(_)
ToDecimal(n) ==
    IF n < 10 THEN <<Digits[n + 1]>>
    ELSE ToDecimal(n \div 10) \o <<Digits[(n % 10) + 1]>>

\* impl Display for GoVersion: "go{major}.{minor}.{patch}", a text being a
\* sequence of characters.
Fmt(v) ==
    <<"g", "o">> \o ToDecimal(v.major) \o <<".">> \o ToDecimal(v.minor)
                \o <<".">> \o ToDecimal(v.patch)

\* The place of a character in the order of the character codes, for the
\* characters of a formatted version: "." before the digits, the letters
\* after them.
CharRank(c) == IF c = "." THEN 0 ELSE IF IsDigit(c) THEN 1 + DigitValue(c) ELSE 11

\* The order of str: by the first character that differs.
RECURSIVE TextLess(_, _)
TextLess(s, t) ==
    IF t = <<>> THEN FALSE
    ELSE IF s = <<>> THEN TRUE
    ELSE IF Head(s) = Head(t) THEN TextLess(Tail(s), Tail(t))
    ELSE CharRank(Head(s)) < CharRank(Head(t))

\* The order of versions as it would be if they were compared as texts.
LessAsText(a, b) == TextLess(Fmt(a), Fmt(b))

\* #[derive(PartialOrd, Ord)]: lexicographic on (major, minor, patch).
Less(a, b) ==
    \/ a.major < b.major
    \/ a.major = b.major /\ a.minor < b.minor
    \/ a.major = b.major /\ a.minor = b.minor /\ a.patch < b.patch

\* BTreeMap::last_key_value: the greatest key.
LastKey(S) == CHOOSE v \in S : \A w \in S : ~Less(v, w)

\* BTreeSet iteration order: ascending.
RECURSIVE Ascending(_)
Ascending(S) ==
    IF S = {} THEN <<>>
    ELSE LET lo == CHOOSE v \in S : \A w \in S : ~Less(w, v)
         IN  <<lo>> \o Ascending(S \ {lo})

\* impl Default for VersionFile (derived): no enabled version, empty sets.
DefaultVersionFile == [enabled |-> {}, installed |-> {}, pinned |-> {}]

\* u32::MAX, as the digits of its decimal text.
U32MaxDigits == <<"4", "2", "9", "4", "9", "6", "7", "2", "9", "5">>

\* A run of digits without its leading zeros.
RECURSIVE Significant(_)
Significant(ds) ==
    IF Len(ds) > 1 /\ Head(ds) = "0" THEN Significant(Tail(ds)) ELSE ds

\* The number a run of digits denotes.
RECURSIVE DecimalValue(_)
DecimalValue(ds) ==
    IF ds = <<>> THEN 0
    ELSE 10 * DecimalValue(SubSeq(ds, 1, Len(ds) - 1)) + DigitValue(ds[Len(ds)])

\* str::parse::<u32> of a run of digits: its value, or an error when the
\* number is greater than u32::MAX.
ParseU32(ds) ==
    LET sig == Significant(ds)
    IN  IF \/ Len(sig) > Len(U32MaxDigits)
           \/ Len(sig) = Len(U32MaxDigits) /\ TextLess(U32MaxDigits, sig)
        THEN [ok |-> FALSE, value |-> 0]
        ELSE [ok |-> TRUE, value |-> DecimalValue(sig)]

\* The length of the longest run of digits of s that starts at position i.
RECURSIVE DigitRun(_, _)
DigitRun(s, i) ==
    IF i <= Len(s) /\ IsDigit(s[i]) THEN 1 + DigitRun(s, i + 1) ELSE 0

\* PARSING_REGEX, go(\d+)\.(\d+)(?:\.(\d+))?, tried at position i of s.
\* Each \d+ takes the whole run of digits; the third group is taken whenever
\* a "." and a digit follow the second.
MatchAt(s, i) ==
    LET a == i + 2
        la == DigitRun(s, a)
        b == a + la + 1
        lb == DigitRun(s, b)
        c == b + lb + 1
        lc == DigitRun(s, c)
    IN  IF /\ i + 1 <= Len(s) /\ s[i] = "g" /\ s[i + 1] = "o"
           /\ la > 0 /\ a + la <= Len(s) /\ s[a + la] = "."
           /\ lb > 0
        THEN [found |-> TRUE,
              major |-> SubSeq(s, a, a + la - 1),
              minor |-> SubSeq(s, b, b + lb - 1),
              patch |-> IF b + lb <= Len(s) /\ s[b + lb] = "." /\ lc > 0
                        THEN SubSeq(s, c, c + lc - 1) ELSE <<>>]
        ELSE [found |-> FALSE, major |-> <<>>, minor |-> <<>>, patch |-> <<>>]

\* GoVersion::from_str: the leftmost match of PARSING_REGEX in the text,
\* surrounding text ignored; each group is parsed as a u32 and unwrapped, a
\* missing patch is 0; no match is the error "unable to parse go version".
FromStr(s) ==
    LET starts == {i \in 1..Len(s) : MatchAt(s, i).found}
        first == CHOOSE i \in starts : \A j \in starts : i <= j
        m == MatchAt(s, first)
        major == ParseU32(m.major)
        minor == ParseU32(m.minor)
        patch == IF m.patch = <<>> THEN [ok |-> TRUE, value |-> 0]
                 ELSE ParseU32(m.patch)
    IN  IF starts = {}
        THEN [res |-> "Err", value |-> GoVersion(0, 0, 0)]
        ELSE IF major.ok /\ minor.ok /\ patch.ok
        THEN [res |-> "Ok", value |-> GoVersion(major.value, minor.value, patch.value)]
        ELSE [res |-> "panic", value |-> GoVersion(0, 0, 0)]

VARIABLES
    versionsJson,   \* the state file: [present, enabled, installed, pinned]
    dirs,           \* versions whose install directory exists on disk
    goLink,         \* target of the activation symlink: {} or {v}
    goupDir,        \* whether the directory $GOPATH/goup exists
    last,           \* the last operation and what it returned
    proc,           \* the invocations of goup that run side by side
    given,          \* a version handed to Display
    text,           \* a text: a command-line argument, an entry of versions.json
    parsed          \* what from_str returned for text: {} before it ran

\* The files of goup and the report of the last operation.
engine == <<versionsJson, dirs, goLink, goupDir, last>>

\* The texts and what was parsed from them.
parser == <<given, text, parsed>>

vars == <<versionsJson, dirs, goLink, goupDir, last, proc, given, text, parsed>>

\* VersionFile::load: a missing file is the default record.
Load(file) ==
    IF file.present
    THEN [enabled |-> file.enabled, installed |-> file.installed, pinned |-> file.pinned]
    ELSE DefaultVersionFile

\* VersionFile::store: the file is overwritten in full.
Store(rec) ==
    [present |-> TRUE, enabled |-> rec.enabled, installed |-> rec.installed,
     pinned |-> rec.pinned]

\* What go.dev returns for the running platform: the request fails, or the
\* versions that have an archive for (arch, os).
NetRepliesOver(U) == {[ok |-> FALSE, versions |-> {}]} \cup
                     {[ok |-> TRUE, versions |-> S] : S \in SUBSET U}

\* The replies the subcommands are run with.
NetReplies == NetRepliesOver(Versions)

\* available_go_versions: an error when the request fails or nothing matches.
AvailableGoVersions(net) ==
    IF ~net.ok THEN [res |-> "CatalogError", keys |-> {}]
    ELSE IF net.versions = {} THEN [res |-> "NoVersionsForTarget", keys |-> {}]
    ELSE [res |-> "ok", keys |-> net.versions]

\* The I/O calls of an operation that can fail.  An operation is run with one
\* fault: the named call, if the operation reaches it, returns an error.
\* "download" is the GET of the archive, "unpack" an unpack that leaves
\* nothing behind, "unpackPartial" one that leaves a partly written directory,
\* "unlink" fs::remove_file with an error other than NotFound, "symlink" the
\* symlink call, "rmdir" fs::remove_dir_all.
Faults == {"none", "download", "unpack", "unpackPartial", "unlink", "symlink", "rmdir"}

\* download_version as it would be if the record were stored before the
\* archive is fetched.
DownloadVersionRecordFirst(file, d, version, fault) ==
    LET version_file == Load(file)
        needs_install == version \notin version_file.installed
        added == [version_file EXCEPT !.installed = @ \cup {version}]
    IN  IF ~needs_install
        THEN [res |-> "ok", file |-> file, dirs |-> d,
              archive |-> FALSE, unpack |-> FALSE]
        ELSE IF fault = "download"
        THEN [res |-> "DownloadFailed", file |-> Store(added), dirs |-> d,
              archive |-> TRUE, unpack |-> FALSE]
        ELSE IF fault = "unpack"
        THEN [res |-> "UnpackFailed", file |-> Store(added), dirs |-> d,
              archive |-> TRUE, unpack |-> TRUE]
        ELSE IF fault = "unpackPartial"
        THEN [res |-> "UnpackFailed", file |-> Store(added),
              dirs |-> d \cup {version}, archive |-> TRUE, unpack |-> TRUE]
        ELSE [res |-> "ok", file |-> Store(added), dirs |-> d \cup {version},
              archive |-> TRUE, unpack |-> TRUE]

\* download_version as it would be without the needs_install test: the
\* archive is fetched and unpacked every time.
DownloadVersionAlways(file, d, version, fault) ==
    LET version_file == Load(file)
        added == [version_file EXCEPT !.installed = @ \cup {version}]
    IN  IF fault = "download"
        THEN [res |-> "DownloadFailed", file |-> file, dirs |-> d,
              archive |-> TRUE, unpack |-> FALSE]
        ELSE IF fault = "unpack"
        THEN [res |-> "UnpackFailed", file |-> file, dirs |-> d,
              archive |-> TRUE, unpack |-> TRUE]
        ELSE IF fault = "unpackPartial"
        THEN [res |-> "UnpackFailed", file |-> file, dirs |-> d \cup {version},
              archive |-> TRUE, unpack |-> TRUE]
        ELSE [res |-> "ok", file |-> Store(added), dirs |-> d \cup {version},
              archive |-> TRUE, unpack |-> TRUE]

\* download_version: fetch and unpack the archive unless the version is
\* already recorded as installed, then store the record.
DownloadVersion(file, d, version, fault) ==
    LET version_file == Load(file)
        needs_install == version \notin version_file.installed
        added == [version_file EXCEPT !.installed = @ \cup {version}]
    IN  IF ~needs_install
        THEN [res |-> "ok", file |-> file, dirs |-> d,
              archive |-> FALSE, unpack |-> FALSE]
        ELSE IF fault = "download"
        THEN [res |-> "DownloadFailed", file |-> file, dirs |-> d,
              archive |-> TRUE, unpack |-> FALSE]
        ELSE IF fault = "unpack"
        THEN [res |-> "UnpackFailed", file |-> file, dirs |-> d,
              archive |-> TRUE, unpack |-> TRUE]
        ELSE IF fault = "unpackPartial"
        THEN [res |-> "UnpackFailed", file |-> file, dirs |-> d \cup {version},
              archive |-> TRUE, unpack |-> TRUE]
        ELSE [res |-> "ok", file |-> Store(added), dirs |-> d \cup {version},
              archive |-> TRUE, unpack |-> TRUE]

\* enable_version as it would be if enabled were set and stored before the
\* link is made.
EnableVersionRecordFirst(file, link, version, fault) ==
    LET records_file == Load(file)
        stored == Store([records_file EXCEPT !.enabled = {version}])
    IN  IF version \notin records_file.installed
        THEN [res |-> "NotInstalled", file |-> file, link |-> link]
        ELSE IF fault = "unlink"
        THEN [res |-> "UnlinkFailed", file |-> stored, link |-> link]
        ELSE IF fault = "symlink"
        THEN [res |-> "SymlinkFailed", file |-> stored, link |-> {}]
        ELSE [res |-> "ok", file |-> stored, link |-> {version}]

\* enable_version as it would be without the test that the version is
\* installed.
EnableVersionUnchecked(file, link, version, fault) ==
    LET records_file == Load(file)
    IN  IF fault = "unlink"
        THEN [res |-> "UnlinkFailed", file |-> file, link |-> link]
        ELSE IF fault = "symlink"
        THEN [res |-> "SymlinkFailed", file |-> file, link |-> {}]
        ELSE [res |-> "ok",
              file |-> Store([records_file EXCEPT !.enabled = {version}]),
              link |-> {version}]

\* enable_version (unix): the version must be installed; the old link is
\* removed (its absence is not an error), the new one is made, and only
\* then is enabled set and stored.
EnableVersion(file, link, version, fault) ==
    LET records_file == Load(file)
    IN  IF version \notin records_file.installed
        THEN [res |-> "NotInstalled", file |-> file, link |-> link]
        ELSE IF fault = "unlink"
        THEN [res |-> "UnlinkFailed", file |-> file, link |-> link]
        ELSE IF fault = "symlink"
        THEN [res |-> "SymlinkFailed", file |-> file, link |-> {}]
        ELSE [res |-> "ok",
              file |-> Store([records_file EXCEPT !.enabled = {version}]),
              link |-> {version}]

\* remove_version as it would be without the test that the version is pinned.
RemoveVersionIgnoringPin(file, d, version, fault) ==
    LET loaded == Load(file)
        removed == [loaded EXCEPT !.installed = @ \ {version}]
        was_enabled == removed.enabled = {version}
        records_file == IF was_enabled THEN [removed EXCEPT !.enabled = {}]
                        ELSE removed
    IN  IF version \notin loaded.installed
        THEN [res |-> "NotInstalled", file |-> file, dirs |-> d, notice |-> FALSE]
        ELSE IF version \notin d \/ fault = "rmdir"
        THEN [res |-> "RemoveDirFailed", file |-> file, dirs |-> d,
              notice |-> was_enabled]
        ELSE [res |-> "ok", file |-> Store(records_file), dirs |-> d \ {version},
              notice |-> was_enabled]

\* remove_version as it would be if it left the enabled slot alone.
RemoveVersionKeepingEnabled(file, d, version, fault) ==
    LET loaded == Load(file)
        records_file == [loaded EXCEPT !.installed = @ \ {version}]
    IN  IF version \notin loaded.installed
        THEN [res |-> "NotInstalled", file |-> file, dirs |-> d, notice |-> FALSE]
        ELSE IF version \in loaded.pinned
        THEN [res |-> "Pinned", file |-> file, dirs |-> d, notice |-> FALSE]
        ELSE IF version \notin d \/ fault = "rmdir"
        THEN [res |-> "RemoveDirFailed", file |-> file, dirs |-> d,
              notice |-> FALSE]
        ELSE [res |-> "ok", file |-> Store(records_file), dirs |-> d \ {version},
              notice |-> FALSE]

\* remove_version: not installed and pinned are refused before anything is
\* touched; the enabled slot is cleared, with a notice, when it names the
\* version; the directory is deleted (a missing directory is an error) and
\* the record stored.
RemoveVersion(file, d, version, fault) ==
    LET loaded == Load(file)
        removed == [loaded EXCEPT !.installed = @ \ {version}]
        was_enabled == removed.enabled = {version}
        records_file == IF was_enabled THEN [removed EXCEPT !.enabled = {}]
                        ELSE removed
    IN  IF version \notin loaded.installed
        THEN [res |-> "NotInstalled", file |-> file, dirs |-> d, notice |-> FALSE]
        ELSE IF version \in loaded.pinned
        THEN [res |-> "Pinned", file |-> file, dirs |-> d, notice |-> FALSE]
        ELSE IF version \notin d \/ fault = "rmdir"
        THEN [res |-> "RemoveDirFailed", file |-> file, dirs |-> d,
              notice |-> was_enabled]
        ELSE [res |-> "ok", file |-> Store(records_file), dirs |-> d \ {version},
              notice |-> was_enabled]

\* version_folders: the entries of the goup directory whose name parses as a
\* version.  Neither "go" nor "versions.json" does.
VersionFolders(d) == d

\* pin as it would be without the test that the version is installed.
PinVersionUnchecked(file, version) ==
    LET version_file == Load(file)
    IN  [res |-> "ok",
         file |-> Store([version_file EXCEPT !.pinned = @ \cup {version}])]

\* pin: the version must be installed.
PinVersion(file, version) ==
    LET version_file == Load(file)
    IN  IF version \notin version_file.installed
        THEN [res |-> "NotInstalled", file |-> file]
        ELSE [res |-> "ok",
              file |-> Store([version_file EXCEPT !.pinned = @ \cup {version}])]

\* unpin: unconditional.
UnpinVersion(file, version) ==
    LET version_file == Load(file)
    IN  [res |-> "ok",
         file |-> Store([version_file EXCEPT !.pinned = @ \ {version}])]

\* clean, up to the allow-list: installed is cut down to the folders on disk,
\* pinned to the installed versions that are left.
Reconciled(file, d) ==
    LET version_file == Load(file)
        installed == version_file.installed \cap VersionFolders(d)
    IN  [enabled |-> version_file.enabled,
         installed |-> installed,
         pinned |-> installed \cap version_file.pinned]

\* The allow-list as it would be without the pinned versions.
AllowlistWithoutPinned(rec, keys) == keys \cup rec.enabled

\* clean: the versions kept are those available, pinned or enabled.
Allowlist(rec, keys) == keys \cup rec.pinned \cup rec.enabled

\* clean: the folders that are deleted.
Stale(file, d, keys) == VersionFolders(d) \ Allowlist(Reconciled(file, d), keys)

\* The elements of a sequence before position k.
Before(seq, k) == {seq[i] : i \in 1..(k - 1)}

\* clean as it would be if the folders that are kept were taken into
\* installed.
CleanVersionsAdopting(file, d, net, fault, failAt) ==
    LET version_file == Reconciled(file, d)
        available == AvailableGoVersions(net)
        stale == Stale(file, d, available.keys)
        doomed == Ascending(stale)
        kept == [version_file EXCEPT !.installed = VersionFolders(d) \ stale]
    IN  IF available.res # "ok"
        THEN [res |-> available.res, file |-> file, dirs |-> d]
        ELSE IF fault = "rmdir" /\ failAt \in 1..Len(doomed)
        THEN [res |-> "RemoveDirFailed", file |-> file,
              dirs |-> d \ Before(doomed, failAt)]
        ELSE [res |-> "ok", file |-> Store(kept), dirs |-> d \ stale]

\* clean as it would be if the record were stored after each deletion.
CleanVersionsStoringProgress(file, d, net, fault, failAt) ==
    LET version_file == Reconciled(file, d)
        available == AvailableGoVersions(net)
        stale == Stale(file, d, available.keys)
        doomed == Ascending(stale)
        kept == [version_file EXCEPT !.installed = @ \ stale]
        sofar == [version_file EXCEPT !.installed = @ \ Before(doomed, failAt)]
    IN  IF available.res # "ok"
        THEN [res |-> available.res, file |-> file, dirs |-> d]
        ELSE IF fault = "rmdir" /\ failAt \in 1..Len(doomed)
        THEN [res |-> "RemoveDirFailed",
              file |-> IF failAt > 1 THEN Store(sofar) ELSE file,
              dirs |-> d \ Before(doomed, failAt)]
        ELSE [res |-> "ok", file |-> Store(kept), dirs |-> d \ stale]

\* clean as it would be if the loop deleted the folders without dropping
\* them from installed.
CleanVersionsKeepingRecord(file, d, net, fault, failAt) ==
    LET version_file == Reconciled(file, d)
        available == AvailableGoVersions(net)
        stale == Stale(file, d, available.keys)
        doomed == Ascending(stale)
    IN  IF available.res # "ok"
        THEN [res |-> available.res, file |-> file, dirs |-> d]
        ELSE IF fault = "rmdir" /\ failAt \in 1..Len(doomed)
        THEN [res |-> "RemoveDirFailed", file |-> file,
              dirs |-> d \ Before(doomed, failAt)]
        ELSE [res |-> "ok", file |-> Store(version_file), dirs |-> d \ stale]

\* clean: every folder outside the allow-list is dropped from installed and
\* deleted, in ascending order; the record is stored once at the end.
\* With fault "rmdir" the failAt-th deletion fails.
CleanVersions(file, d, net, fault, failAt) ==
    LET version_file == Reconciled(file, d)
        available == AvailableGoVersions(net)
        stale == Stale(file, d, available.keys)
        doomed == Ascending(stale)
        kept == [version_file EXCEPT !.installed = @ \ stale]
    IN  IF available.res # "ok"
        THEN [res |-> available.res, file |-> file, dirs |-> d]
        ELSE IF fault = "rmdir" /\ failAt \in 1..Len(doomed)
        THEN [res |-> "RemoveDirFailed", file |-> file,
              dirs |-> d \ Before(doomed, failAt)]
        ELSE [res |-> "ok", file |-> Store(kept), dirs |-> d \ stale]

\* list_versions: one line per installed or available version, with its
\* bullet ("*" enabled, "i" installed, " " otherwise) and the pinned mark.
ListLines(file, keys) ==
    LET rec == Load(file)
    IN  {[version |-> v,
          bullet |-> IF rec.enabled = {v} THEN "*"
                     ELSE IF v \in rec.installed THEN "i" ELSE " ",
          pinned |-> v \in rec.pinned] : v \in rec.installed \cup keys}

\* install as it would be if it refused a version that is already installed.
InstallVersionOnce(file, d, v, net, fault) ==
    LET rf == [Load(file) EXCEPT !.installed = @ \cup {v}]
        available == AvailableGoVersions(net)
        dl == DownloadVersion(file, d, v, fault)
    IN  IF available.res # "ok"
        THEN [res |-> available.res, file |-> file, dirs |-> d,
              archive |-> FALSE, unpack |-> FALSE]
        ELSE IF v \notin available.keys
        THEN [res |-> "NotAvailable", file |-> file, dirs |-> d,
              archive |-> FALSE, unpack |-> FALSE]
        ELSE IF v \in Load(file).installed
        THEN [res |-> "AlreadyInstalled", file |-> file, dirs |-> d,
              archive |-> FALSE, unpack |-> FALSE]
        ELSE IF dl.res # "ok"
        THEN [res |-> dl.res, file |-> dl.file, dirs |-> dl.dirs,
              archive |-> dl.archive, unpack |-> dl.unpack]
        ELSE [res |-> "ok", file |-> Store(rf), dirs |-> dl.dirs,
              archive |-> dl.archive, unpack |-> dl.unpack]

\* install: the catalog is queried first; a version it does not list is
\* refused; download_version does the work and the record loaded at the start,
\* with the version added, is stored once more.
InstallVersion(file, d, v, net, fault) ==
    LET rf == [Load(file) EXCEPT !.installed = @ \cup {v}]
        available == AvailableGoVersions(net)
        dl == DownloadVersion(file, d, v, fault)
    IN  IF available.res # "ok"
        THEN [res |-> available.res, file |-> file, dirs |-> d,
              archive |-> FALSE, unpack |-> FALSE]
        ELSE IF v \notin available.keys
        THEN [res |-> "NotAvailable", file |-> file, dirs |-> d,
              archive |-> FALSE, unpack |-> FALSE]
        ELSE IF dl.res # "ok"
        THEN [res |-> dl.res, file |-> dl.file, dirs |-> dl.dirs,
              archive |-> dl.archive, unpack |-> dl.unpack]
        ELSE [res |-> "ok", file |-> Store(rf), dirs |-> dl.dirs,
              archive |-> dl.archive, unpack |-> dl.unpack]

\* update: the greatest available version is enabled, after being downloaded
\* when the record does not list it as installed.
UpdateVersions(file, d, link, net, fault) ==
    LET records == Load(file)
        available == AvailableGoVersions(net)
        latest_version == LastKey(available.keys)
        dl == DownloadVersion(file, d, latest_version, fault)
        direct == EnableVersion(file, link, latest_version, fault)
        after == EnableVersion(dl.file, link, latest_version, fault)
    IN  IF available.res # "ok"
        THEN [res |-> available.res, file |-> file, dirs |-> d, link |-> link,
              archive |-> FALSE, unpack |-> FALSE]
        ELSE IF latest_version \in records.installed
        THEN [res |-> direct.res, file |-> direct.file, dirs |-> d,
              link |-> direct.link, archive |-> FALSE, unpack |-> FALSE]
        ELSE IF dl.res # "ok"
        THEN [res |-> dl.res, file |-> dl.file, dirs |-> dl.dirs, link |-> link,
              archive |-> dl.archive, unpack |-> dl.unpack]
        ELSE [res |-> after.res, file |-> after.file, dirs |-> dl.dirs,
              link |-> after.link, archive |-> dl.archive, unpack |-> dl.unpack]

\* main: an Err of the subcommand is printed to stderr after "Error: ".
MainStderr(res) == IF res # "ok" THEN "Error: " ELSE ""

\* main: after the match, and the eprintln of an Err, main returns; the
\* status of a process whose main returns is 0.
MainExit(res) == 0

\* The goup directory after an unpack: it holds the install directories, so
\* it exists once one of them does.
GoupDirAfter(root, d) == root \/ d # {}

\* No invocation runs beside the one operation of a step.
NoInvocations == [p \in 1..NumInvocations |->
                    [cmd |-> "", v |-> {}, pc |-> "idle",
                     rec |-> DefaultVersionFile, dl |-> DefaultVersionFile,
                     res |-> ""]]

\* What an operation reports: its name, its argument, the error it returned
\* ("ok" for none), whether it queried the catalog and the versions the
\* catalog listed, whether it requested an archive and started to unpack
\* one, whether it printed the notice "Version .. was enabled", the
\* install directories it deleted, what main printed to stderr and the exit
\* status.  follows names the operation before, when
\* that was a successful install or unpin of the same version.
Report(op, arg, res, catalog, seen, archive, unpack, notice, deleted) ==
    [op |-> op, v |-> arg, res |-> res, catalog |-> catalog, seen |-> seen,
     archive |-> archive, unpack |-> unpack, notice |-> notice,
     deleted |-> deleted, stderr |-> MainStderr(res), exit |-> MainExit(res),
     follows |-> IF last.res = "ok" /\ last.v = arg /\ arg # {}
                    /\ last.op \in {"install", "unpin"}
                 THEN last.op ELSE ""]

FreshDisk ==
    /\ versionsJson = [present |-> FALSE, enabled |-> {}, installed |-> {},
                       pinned |-> {}]
    /\ dirs = {}
    /\ goLink = {}
    /\ goupDir = FALSE
    /\ last = [op |-> "start", v |-> {}, res |-> "ok", catalog |-> FALSE,
               seen |-> {}, archive |-> FALSE, unpack |-> FALSE,
               notice |-> FALSE, deleted |-> {}, stderr |-> "", exit |-> 0,
               follows |-> ""]

\* No text has been formatted or parsed.
NothingParsed ==
    /\ given = GoVersion(0, 0, 0)
    /\ text = <<>>
    /\ parsed = {}

Init == FreshDisk /\ proc = NoInvocations /\ NothingParsed

\* goup list: prints ListLines, changes nothing.
List ==
    \E net \in NetReplies :
        /\ last' = Report("list", {}, AvailableGoVersions(net).res, TRUE,
                          net.versions, FALSE, FALSE, FALSE, {})
        /\ UNCHANGED <<versionsJson, dirs, goLink, goupDir, proc, parser>>

\* The faults that matter to download_version: none once the version is
\* recorded as installed.
DownloadFaults(file, version) ==
    IF version \in Load(file).installed THEN {"none"}
    ELSE {"none", "download", "unpack", "unpackPartial"}

\* The faults that matter to enable_version: none when it refuses.
EnableFaults(file, version) ==
    IF version \in Load(file).installed THEN {"none", "unlink", "symlink"}
    ELSE {"none"}

\* goup update
Update ==
    \E net \in NetReplies :
    \E fault \in IF AvailableGoVersions(net).res # "ok" THEN {"none"}
                 ELSE LET latest == LastKey(net.versions)
                      IN  IF latest \in Load(versionsJson).installed
                          THEN EnableFaults(versionsJson, latest)
                          ELSE DownloadFaults(versionsJson, latest) \cup
                               {"unlink", "symlink"} :
    \E r \in {UpdateVersions(versionsJson, dirs, goLink, net, fault)} :
        /\ versionsJson' = r.file
        /\ dirs' = r.dirs
        /\ goLink' = r.link
        /\ goupDir' = GoupDirAfter(goupDir, r.dirs)
        /\ last' = Report("update", {}, r.res, TRUE, net.versions, r.archive,
                          r.unpack, FALSE, {})
        /\ UNCHANGED <<proc, parser>>

\* install reads the catalog through get(&v) alone: a reply that lists v
\* alone stands for all those that list v, a reply that lists all but v for
\* all those that list some versions but not v.
InstallReplies(v) ==
    {net \in NetReplies : net.versions \in {{}, {v}, Versions \ {v}}}

\* goup install <version>
Install(v) ==
    \E net \in InstallReplies(v) :
    \E fault \in IF v \notin AvailableGoVersions(net).keys THEN {"none"}
                 ELSE DownloadFaults(versionsJson, v) :
    \E r \in {InstallVersion(versionsJson, dirs, v, net, fault)} :
        /\ versionsJson' = r.file
        /\ dirs' = r.dirs
        /\ last' = Report("install", {v}, r.res, TRUE, net.versions, r.archive,
                          r.unpack, FALSE, {})
        /\ goupDir' = GoupDirAfter(goupDir, r.dirs)
        /\ UNCHANGED <<goLink, proc, parser>>

\* goup enable <version>
Enable(v) ==
    \E fault \in EnableFaults(versionsJson, v) :
    \E r \in {EnableVersion(versionsJson, goLink, v, fault)} :
        /\ versionsJson' = r.file
        /\ goLink' = r.link
        /\ last' = Report("enable", {v}, r.res, FALSE, {}, FALSE, FALSE, FALSE, {})
        /\ UNCHANGED <<dirs, goupDir, proc, parser>>

\* goup remove <version>
Remove(v) ==
    \E fault \in {"none", "rmdir"} :
    \E r \in {RemoveVersion(versionsJson, dirs, v, fault)} :
        /\ versionsJson' = r.file
        /\ dirs' = r.dirs
        /\ last' = Report("remove", {v}, r.res, FALSE, {}, FALSE, FALSE, r.notice,
                          dirs \ r.dirs)
        /\ UNCHANGED <<goLink, goupDir, proc, parser>>

\* goup pin <version>
Pin(v) ==
    \E r \in {PinVersion(versionsJson, v)} :
        /\ versionsJson' = r.file
        /\ last' = Report("pin", {v}, r.res, FALSE, {}, FALSE, FALSE, FALSE, {})
        /\ UNCHANGED <<dirs, goLink, goupDir, proc, parser>>

\* goup unpin <version>.  fs::write does not make the goup directory: where
\* that is missing the store fails.
Unpin(v) ==
    \E r \in {IF goupDir THEN UnpinVersion(versionsJson, v)
               ELSE [res |-> "StoreFailed", file |-> versionsJson]} :
        /\ versionsJson' = r.file
        /\ last' = Report("unpin", {v}, r.res, FALSE, {}, FALSE, FALSE, FALSE, {})
        /\ UNCHANGED <<dirs, goLink, goupDir, proc, parser>>

\* The deletions of clean that can fail: none, or the k-th of the stale
\* folders.
CleanFaults(file, d, net) ==
    IF AvailableGoVersions(net).res # "ok" THEN {<<"none", 0>>}
    ELSE {<<"none", 0>>} \cup
         {<<"rmdir", k>> : k \in 1..Cardinality(Stale(file, d, net.versions))}

\* goup clean, the catalog replying one of replies.  version_folders reads
\* the goup directory before the catalog is asked for: where the directory
\* is missing, clean fails there.
CleanWith(replies) ==
    \/ /\ ~goupDir
       /\ last' = Report("clean", {}, "ReadDirFailed", FALSE, {}, FALSE, FALSE,
                         FALSE, {})
       /\ UNCHANGED <<versionsJson, dirs, goLink, goupDir, proc, parser>>
    \/ /\ goupDir
       /\ \E net \in replies :
          \E f \in CleanFaults(versionsJson, dirs, net) :
          \E r \in {CleanVersions(versionsJson, dirs, net, f[1], f[2])} :
            /\ versionsJson' = r.file
            /\ dirs' = r.dirs
            /\ last' = Report("clean", {}, r.res, TRUE, net.versions, FALSE,
                              FALSE, FALSE, dirs \ r.dirs)
            /\ UNCHANGED <<goLink, goupDir, proc, parser>>

\* goup clean
Clean == CleanWith(NetReplies)

\* Someone other than goup deletes an install directory between operations.
DeleteFolder(v) ==
    /\ v \in dirs
    /\ dirs' = dirs \ {v}
    /\ last' = Report("tamper", {}, "ok", FALSE, {}, FALSE, FALSE, FALSE, {v})
    /\ UNCHANGED <<versionsJson, goLink, goupDir, proc, parser>>

Next ==
    \/ List
    \/ Update
    \/ Clean
    \/ \E v \in Versions : Install(v)
    \/ \E v \in Versions : Enable(v)
    \/ \E v \in Versions : Remove(v)
    \/ \E v \in Versions : Pin(v)
    \/ \E v \in Versions : Unpin(v)
    \/ \E v \in Versions : DeleteFolder(v)

Spec == Init /\ [][Next]_vars

(***************************************************************************)
(* clean on its own, on disks with NumCleanVersions versions: with a       *)
(* catalog that lists something, two stale folders take three versions.    *)
(***************************************************************************)

\* The versions of the disks that clean is run on.
CleanUniverse == VersionsUpTo(NumCleanVersions)

\* The records install, enable, pin, unpin and remove leave in the state
\* file: the pinned versions and the enabled one are installed.
CleanRecords ==
    {[enabled |-> e, installed |-> i, pinned |-> p] :
        i \in SUBSET CleanUniverse, p \in SUBSET CleanUniverse,
        e \in {{}} \cup {{v} : v \in CleanUniverse}}
    \cap {rec \in [enabled : SUBSET CleanUniverse, installed : SUBSET CleanUniverse,
                   pinned : SUBSET CleanUniverse] :
            rec.pinned \subseteq rec.installed /\ rec.enabled \subseteq rec.installed}

\* A disk before goup has run, or one with a record in the state file, the
\* link of the enabled version, and any install directories: those of the
\* record, less the ones deleted by hand, plus the ones a failed unpack left.
InitClean ==
    /\ \/ FreshDisk
       \/ /\ \E rec \in CleanRecords :
                versionsJson = Store(rec) /\ goLink = rec.enabled
          /\ dirs \in SUBSET CleanUniverse
          /\ goupDir = TRUE
          /\ last = [op |-> "start", v |-> {}, res |-> "ok", catalog |-> FALSE,
                     seen |-> {}, archive |-> FALSE, unpack |-> FALSE,
                     notice |-> FALSE, deleted |-> {}, stderr |-> "", exit |-> 0,
                     follows |-> ""]
    /\ proc = NoInvocations
    /\ NothingParsed

NextClean ==
    \/ CleanWith(NetRepliesOver(CleanUniverse))
    \/ \E v \in CleanUniverse : DeleteFolder(v)

SpecClean == InitClean /\ [][NextClean]_vars

(***************************************************************************)
(* Invocations side by side.  Each is a process of its own that reads the  *)
(* state file into a record, changes the record and writes it back in      *)
(* full; nothing locks the file, so the steps of two invocations           *)
(* interleave at the reads and the writes.  The catalog lists the version  *)
(* asked for and no call fails.                                            *)
(***************************************************************************)

\* The invocations.
Procs == 1..NumInvocations

\* What a subcommand does to the record it loaded: pin and unpin change
\* pinned, install inserts into installed.
Effect(cmd, v, rec) ==
    IF cmd = "pin" THEN [rec EXCEPT !.pinned = @ \cup {v}]
    ELSE IF cmd = "unpin" THEN [rec EXCEPT !.pinned = @ \ {v}]
    ELSE [rec EXCEPT !.installed = @ \cup {v}]

\* The records that installs and pins leave in the state file.
RaceRecords ==
    {[enabled |-> {}, installed |-> i, pinned |-> p] :
        i \in SUBSET Versions, p \in SUBSET Versions}
    \cap {rec \in [enabled : {{}}, installed : SUBSET Versions,
                   pinned : SUBSET Versions] : rec.pinned \subseteq rec.installed}

\* A disk with some versions installed, some of them pinned, none enabled,
\* and no invocation running.
InitRace ==
    /\ \E rec \in RaceRecords : versionsJson = Store(rec) /\ dirs = rec.installed
    /\ goLink = {}
    /\ goupDir = TRUE
    /\ last = [op |-> "start", v |-> {}, res |-> "ok", catalog |-> FALSE,
               seen |-> {}, archive |-> FALSE, unpack |-> FALSE,
               notice |-> FALSE, deleted |-> {}, stderr |-> "", exit |-> 0,
               follows |-> ""]
    /\ proc = NoInvocations
    /\ NothingParsed

\* goup pin, unpin or install is started.
Invoke(p, cmd, v) ==
    /\ proc[p].pc = "idle"
    /\ proc' = [proc EXCEPT ![p].cmd = cmd, ![p].v = {v}, ![p].pc = "load"]
    /\ UNCHANGED <<engine, parser>>

\* VersionFile::load at the start of pin, unpin and install, and the change
\* made to the record in memory; pin returns an error when the version is
\* not installed.
LoadStep(p) ==
    /\ proc[p].pc = "load"
    /\ \E v \in proc[p].v :
        LET loaded == Load(versionsJson)
        IN  IF proc[p].cmd = "pin" /\ v \notin loaded.installed
            THEN proc' = [proc EXCEPT ![p].pc = "done", ![p].res = "NotInstalled"]
            ELSE proc' = [proc EXCEPT
                            ![p].rec = Effect(proc[p].cmd, v, loaded),
                            ![p].pc = IF proc[p].cmd = "install" THEN "download"
                                      ELSE "store"]
    /\ UNCHANGED <<engine, parser>>

\* download_version, called by install: it loads the state file itself and
\* has nothing to do when the version is in installed.
DownloadLoad(p) ==
    /\ proc[p].pc = "download"
    /\ \E v \in proc[p].v :
        LET version_file == Load(versionsJson)
        IN  IF v \in version_file.installed
            THEN proc' = [proc EXCEPT ![p].pc = "store"]
            ELSE proc' = [proc EXCEPT
                            ![p].dl = [version_file EXCEPT !.installed = @ \cup {v}],
                            ![p].pc = "unpack"]
    /\ UNCHANGED <<engine, parser>>

\* download_version: the archive is fetched and unpacked.
Unpack(p) ==
    /\ proc[p].pc = "unpack"
    /\ dirs' = dirs \cup proc[p].v
    /\ proc' = [proc EXCEPT ![p].pc = "record"]
    /\ UNCHANGED <<versionsJson, goLink, goupDir, last, parser>>

\* download_version: the record it loaded, with the version added, is stored.
Record(p) ==
    /\ proc[p].pc = "record"
    /\ versionsJson' = Store(proc[p].dl)
    /\ proc' = [proc EXCEPT ![p].pc = "store"]
    /\ UNCHANGED <<dirs, goLink, goupDir, last, parser>>

\* The last store as it would be if it were one step with a fresh load: the
\* change is made to the record the file holds at the time of the write.
StoreStepMerging(p) ==
    /\ proc[p].pc = "store"
    /\ \E v \in proc[p].v :
         versionsJson' = Store(Effect(proc[p].cmd, v, Load(versionsJson)))
    /\ proc' = [proc EXCEPT ![p].pc = "done", ![p].res = "ok"]
    /\ UNCHANGED <<dirs, goLink, goupDir, last, parser>>

\* VersionFile::store at the end of pin, unpin and install: the file is
\* overwritten with the record of the invocation, which then reports
\* success.
StoreStep(p) ==
    /\ proc[p].pc = "store"
    /\ versionsJson' = Store(proc[p].rec)
    /\ proc' = [proc EXCEPT ![p].pc = "done", ![p].res = "ok"]
    /\ UNCHANGED <<dirs, goLink, goupDir, last, parser>>

NextRace ==
    \E p \in Procs :
        \/ \E cmd \in {"pin", "unpin", "install"} : \E v \in Versions :
              Invoke(p, cmd, v)
        \/ LoadStep(p)
        \/ DownloadLoad(p)
        \/ Unpack(p)
        \/ Record(p)
        \/ StoreStep(p)

SpecRace == InitRace /\ [][NextRace]_vars

(***************************************************************************)
(* Versions as texts: Display and from_str, which write and read the       *)
(* entries of versions.json, name the install directories and read the     *)
(* version argument of the command line.                                   *)
(***************************************************************************)

\* The versions that are formatted and parsed.
VersionIDs ==
    {GoVersion(ma, mi, pa) : ma \in 0..MaxComponent, mi \in 0..MaxComponent,
                             pa \in 0..MaxComponent}

\* A version argument typed without its patch number: "go{major}.{minor}".
ShortText(v) ==
    <<"g", "o">> \o ToDecimal(v.major) \o <<".">> \o ToDecimal(v.minor)

\* A text with other text around it.
Around(t) == <<"x", "g">> \o t \o <<".", "x">>

InitParse ==
    /\ FreshDisk
    /\ proc = NoInvocations
    /\ given \in VersionIDs
    /\ text = <<>>
    /\ parsed = {}

\* The version is written out: serialize, and the name of an install
\* directory, are its Display.
Display ==
    /\ text = <<>>
    /\ text' = Fmt(given)
    /\ UNCHANGED <<engine, proc, given, parsed>>

\* The version is typed on the command line without its patch number.
TypeShort ==
    /\ text = <<>>
    /\ text' = ShortText(given)
    /\ UNCHANGED <<engine, proc, given, parsed>>

\* The text is found inside a longer one.
Embed ==
    /\ text # <<>>
    /\ parsed = {}
    /\ Head(text) = "g"
    /\ text' = Around(text)
    /\ UNCHANGED <<engine, proc, given, parsed>>

\* The digits of u32::MAX + 1, the least number that is no u32.
TooLargeDigits == <<"4", "2", "9", "4", "9", "6", "7", "2", "9", "6">>

\* The digits of a ten-digit number that is a u32.
LargeDigits == <<"2", "1", "4", "7", "4", "8", "3", "6", "4", "7">>

\* A version is typed whose patch number has ten digits and is a u32.
TypeLarge ==
    /\ text = <<>>
    /\ text' = ShortText(given) \o <<".">> \o LargeDigits
    /\ UNCHANGED <<engine, proc, given, parsed>>

\* A version is typed, or read from versions.json, from the name of a folder
\* or from the catalog, one of whose numbers is greater than u32::MAX.
TypeTooLarge ==
    /\ text = <<>>
    /\ text' \in
         {<<"g", "o">> \o TooLargeDigits \o <<".">> \o ToDecimal(given.minor)
                      \o <<".">> \o ToDecimal(given.patch),
          <<"g", "o">> \o ToDecimal(given.major) \o <<".">> \o TooLargeDigits
                      \o <<".">> \o ToDecimal(given.patch),
          ShortText(given) \o <<".">> \o TooLargeDigits}
    /\ UNCHANGED <<engine, proc, given, parsed>>

\* A text is typed that is no version: the numbers without "go".
TypeOther ==
    /\ text = <<>>
    /\ text' = ToDecimal(given.major) \o <<".">> \o ToDecimal(given.minor)
    /\ UNCHANGED <<engine, proc, given, parsed>>

\* from_str is applied to the text.
Parse ==
    /\ text # <<>>
    /\ parsed = {}
    /\ parsed' = {FromStr(text)}
    /\ UNCHANGED <<engine, proc, given, text>>

NextParse ==
    \/ Display
    \/ TypeShort
    \/ TypeLarge
    \/ TypeTooLarge
    \/ TypeOther
    \/ Embed
    \/ Parse

SpecParse == InitParse /\ [][NextParse]_vars

(***************************************************************************)
(* Properties.                                                             *)
(***************************************************************************)

\* The persisted record, as the next operation loads it.
Rec == Load(versionsJson)

\* The persisted record after the step.
RecNext == Load(versionsJson')

\* The step is a run of the operation op with the argument arg.
Does(op, arg) == last'.op = op /\ last'.v = arg

\* The subcommands of goup.
Subcommands == {"list", "update", "install", "enable", "remove", "pin", "unpin",
                "clean"}

\* C1: in every reachable persisted record, enabled is none or a member of
\* installed.
C1_EnabledIsInstalled == Rec.enabled \subseteq Rec.installed

\* C2: in every reachable persisted record pinned is a subset of installed,
\* and pin(v) of a v that is not installed fails with NotInstalled and
\* persists nothing.
C2_PinnedAreInstalled ==
    /\ [](Rec.pinned \subseteq Rec.installed)
    /\ [][\A v \in Versions :
            (Does("pin", {v}) /\ v \notin Rec.installed)
            => (last'.res = "NotInstalled" /\ versionsJson' = versionsJson)]_vars

\* C2 happens: a pin was refused while another version is pinned.
C2_Witness ==
    /\ last.op = "pin"
    /\ last.res = "NotInstalled"
    /\ Rec.pinned # {}
    /\ last.v \cap Rec.installed = {}

\* C3: while v is pinned, remove(v) fails with Pinned and leaves the record,
\* the install directories and the link as they were; right after a
\* successful unpin(v), remove(v) of the still-installed v, whose directory
\* is on disk, fails only if the deletion of the directory itself fails, and
\* otherwise deletes the directory and drops v from installed.
C3_PinBlocksRemoval ==
    [][\A v \in Versions :
        /\ (Does("remove", {v}) /\ v \in Rec.pinned)
           => /\ last'.res = "Pinned"
              /\ last'.deleted = {}
              /\ UNCHANGED <<versionsJson, dirs, goLink>>
        /\ (/\ last.op = "unpin" /\ last.v = {v} /\ last.res = "ok"
            /\ v \in Rec.installed /\ v \in dirs
            /\ Does("remove", {v}))
           => /\ last'.res \in {"ok", "RemoveDirFailed"}
              /\ last'.res = "ok"
                 => /\ v \notin dirs'
                    /\ RecNext.installed = Rec.installed \ {v}]_vars

\* C3 happens: a remove succeeded right after the unpin of the same version.
C3_Witness ==
    /\ last.op = "remove"
    /\ last.follows = "unpin"
    /\ last.res = "ok"
    /\ last.deleted = last.v

\* C4: after every successful operation the activation link agrees with the
\* record: it points at the enabled version, and there is none when no
\* version is enabled.
C4_LinkAgreesWithRecord ==
    (last.op \in Subcommands /\ last.res = "ok") => goLink = Rec.enabled

\* C5: enable(v) of a v that is not installed fails with NotInstalled and
\* leaves the state file and the activation link as they were.
C5_EnableNotInstalled ==
    [][\A v \in Versions :
        (Does("enable", {v}) /\ v \notin Rec.installed)
        => /\ last'.res = "NotInstalled"
           /\ versionsJson' = versionsJson
           /\ goLink' = goLink]_vars

\* C5 happens: an enable was refused while another version is enabled and
\* linked.
C5_Witness ==
    /\ last.op = "enable"
    /\ last.res = "NotInstalled"
    /\ Rec.enabled # {}
    /\ goLink = Rec.enabled

\* C6: remove(v) of an installed, unpinned v that is the enabled version and
\* whose directory is on disk fails only if the deletion of the directory
\* itself fails; otherwise it clears enabled, deletes the directory, drops v
\* from installed and persists, so that list, whatever the catalog, marks no
\* version as enabled.  remove(v) of a v that is not the enabled version
\* leaves enabled as it was.
C6_RemoveEnabled ==
    [][\A v \in Versions :
        Does("remove", {v})
        => /\ (/\ v \in Rec.installed \ Rec.pinned
               /\ v \in dirs
               /\ Rec.enabled = {v})
              => /\ last'.res \in {"ok", "RemoveDirFailed"}
                 /\ last'.res = "ok"
                    => /\ versionsJson'.present
                       /\ RecNext.enabled = {}
                       /\ RecNext.installed = Rec.installed \ {v}
                       /\ RecNext.pinned = Rec.pinned
                       /\ dirs' = dirs \ {v}
                       /\ \A keys \in SUBSET Versions :
                            \A line \in ListLines(versionsJson', keys) :
                                line.bullet # "*"
           /\ Rec.enabled # {v} => RecNext.enabled = Rec.enabled]_vars

\* C6 happens: the enabled version was removed, with the notice, and the
\* record has no enabled version.
C6_Witness ==
    /\ last.op = "remove"
    /\ last.res = "ok"
    /\ last.notice
    /\ last.deleted = last.v
    /\ Rec.enabled = {}

\* C7, as stated: install(v) of an installed v succeeds with the record
\* unchanged whatever versions the catalog lists.
C7_InstallIdempotentAnyCatalog ==
    [][\A v \in Versions :
        (Does("install", {v}) /\ v \in Rec.installed /\ last'.seen # {})
        => (last'.res = "ok" /\ versionsJson' = versionsJson)]_vars

\* C7, amended: install(v) of an installed v leaves the state file and the
\* install directories unchanged and downloads nothing; it succeeds when the
\* catalog is fetched and lists v, fails with NotAvailable when the catalog
\* lists other versions only, and fails with the catalog's error otherwise.
C7_InstallIdempotentWhenListed ==
    [][\A v \in Versions :
        (Does("install", {v}) /\ v \in Rec.installed)
        => /\ versionsJson' = versionsJson
           /\ dirs' = dirs
           /\ ~last'.archive /\ ~last'.unpack
           /\ v \in last'.seen => last'.res = "ok"
           /\ (v \notin last'.seen /\ last'.seen # {}) => last'.res = "NotAvailable"
           /\ last'.seen = {} => last'.res \in {"CatalogError", "NoVersionsForTarget"}]_vars

\* C7 happens: an install of an installed version succeeded without a
\* download.
C7_Witness ==
    /\ last.op = "install"
    /\ last.res = "ok"
    /\ ~last.archive
    /\ last.v \subseteq Rec.installed

\* C8, as stated: an install(v) right after a successful install(v) makes no
\* network call, unpacks nothing and leaves installed unchanged (stated for
\* the second installs that return success).
C8_SecondInstallNoNetwork ==
    [][\A v \in Versions :
        (/\ last.op = "install" /\ last.v = {v} /\ last.res = "ok"
         /\ Does("install", {v}) /\ last'.res = "ok")
        => /\ ~last'.catalog
           /\ ~last'.archive
           /\ ~last'.unpack
           /\ RecNext.installed = Rec.installed]_vars

\* C8, amended: an install(v) right after a successful install(v) requests no
\* archive and unpacks nothing: its one network call is the query of the
\* catalog.  It leaves installed, which holds v, and the install directories
\* unchanged.
C8_SecondInstallNoDownload ==
    [][\A v \in Versions :
        (/\ last.op = "install" /\ last.v = {v} /\ last.res = "ok"
         /\ Does("install", {v}))
        => /\ last'.catalog
           /\ ~last'.archive
           /\ ~last'.unpack
           /\ RecNext.installed = Rec.installed
           /\ v \in RecNext.installed
           /\ dirs' = dirs]_vars

\* C8 happens: an install followed a successful install of the same version.
C8_Witness ==
    /\ last.op = "install"
    /\ last.follows = "install"
    /\ last.res = "ok"
    /\ last.catalog

\* C9: after a successful clean every install directory that was on disk and
\* is neither listed by the catalog, nor pinned (and installed, and on disk),
\* nor enabled is gone and is not in installed.  With two versions installed,
\* none pinned, the one enabled and alone in the catalog, clean leaves the
\* enabled one alone in installed and deletes the directory of the other.
C9_CleanRemovesStale ==
    [][(Does("clean", {}) /\ last'.res = "ok")
       => /\ \A v \in dirs :
               v \notin (last'.seen \cup (Rec.pinned \cap Rec.installed \cap dirs)
                         \cup Rec.enabled)
               => (v \notin dirs' /\ v \notin RecNext.installed)
          /\ \A old, new \in Versions :
               (/\ old # new
                /\ Rec.installed = {old, new} /\ dirs = {old, new}
                /\ Rec.pinned = {} /\ Rec.enabled = {new}
                /\ last'.seen = {new})
               => (RecNext.installed = {new} /\ dirs' = {new})]_vars

\* C9 happens: a clean with go1.10.0 enabled and alone in the catalog deleted
\* the directory of the other version and left go1.10.0 alone in installed.
C9_Witness ==
    /\ last.op = "clean"
    /\ last.res = "ok"
    /\ last.seen = {GoVersion(1, 10, 0)}
    /\ Rec.enabled = {GoVersion(1, 10, 0)}
    /\ Rec.installed = {GoVersion(1, 10, 0)}
    /\ Rec.pinned = {}
    /\ dirs = {GoVersion(1, 10, 0)}
    /\ last.deleted # {}

\* C10: clean, whatever it returns and whatever the catalog lists, neither
\* deletes the directory of nor drops from installed a version that is
\* installed, has its directory on disk and is enabled or pinned.  With two
\* versions installed, one pinned and the other enabled, a clean that finds
\* the catalog empty deletes nothing and leaves the state file unchanged.
C10_CleanKeepsProtected ==
    [][Does("clean", {})
       => /\ \A v \in (Rec.enabled \cup Rec.pinned) \cap Rec.installed \cap dirs :
               v \in dirs' /\ v \in RecNext.installed
          /\ \A a, b \in Versions :
               (/\ a # b
                /\ Rec.installed = {a, b} /\ dirs = {a, b}
                /\ Rec.pinned = {a} /\ Rec.enabled = {b}
                /\ last'.seen = {})
               => (dirs' = dirs /\ versionsJson' = versionsJson
                   /\ last'.deleted = {})]_vars

\* C10 happens: a successful clean kept a pinned version that the catalog no
\* longer lists and that is not the enabled one.
C10_Witness ==
    /\ last.op = "clean"
    /\ last.res = "ok"
    /\ \E v \in Rec.pinned \ (last.seen \cup Rec.enabled) :
         v \in dirs /\ v \in Rec.installed

\* The example of C10 happens: go1.9.0 pinned, go1.10.0 enabled, the catalog
\* empty.
C10_ExampleReached ==
    /\ last.op = "clean"
    /\ last.seen = {}
    /\ Rec.installed = {GoVersion(1, 9, 0), GoVersion(1, 10, 0)}
    /\ Rec.pinned = {GoVersion(1, 9, 0)}
    /\ Rec.enabled = {GoVersion(1, 10, 0)}
    /\ dirs = {GoVersion(1, 9, 0), GoVersion(1, 10, 0)}

\* C11: after a successful update the enabled version is the greatest version
\* of the catalog in the numeric order of (major, minor, patch), so that
\* go1.10.0, not go1.9.0, is enabled when the catalog lists both; that version
\* is in the persisted installed set; and the update requested and unpacked
\* an archive exactly when that version was not in installed before.
C11_UpdateEnablesLatest ==
    [][(Does("update", {}) /\ last'.res = "ok")
       => /\ \E m \in last'.seen :
               /\ \A w \in last'.seen :
                    \/ w.major < m.major
                    \/ w.major = m.major /\ w.minor < m.minor
                    \/ w.major = m.major /\ w.minor = m.minor /\ w.patch <= m.patch
               /\ RecNext.enabled = {m}
               /\ m \in RecNext.installed
               /\ last'.archive <=> m \notin Rec.installed
               /\ last'.unpack <=> m \notin Rec.installed
          /\ (GoVersion(1, 9, 0) \in last'.seen /\ GoVersion(1, 10, 0) \in last'.seen)
             => RecNext.enabled # {GoVersion(1, 9, 0)}]_vars

\* C11 happens: an update that found go1.9.0 and go1.10.0 in the catalog
\* downloaded and enabled go1.10.0.
C11_Witness ==
    /\ last.op = "update"
    /\ last.res = "ok"
    /\ last.seen = {GoVersion(1, 9, 0), GoVersion(1, 10, 0)}
    /\ last.archive
    /\ Rec.enabled = {GoVersion(1, 10, 0)}
    /\ GoVersion(1, 10, 0) \in Rec.installed

\* C11 happens without a download: an update found the latest version
\* installed and only enabled it.
C11_WitnessUpToDate ==
    /\ last.op = "update"
    /\ last.res = "ok"
    /\ last.seen = {GoVersion(1, 9, 0), GoVersion(1, 10, 0)}
    /\ ~last.archive
    /\ Rec.enabled = {GoVersion(1, 10, 0)}

\* C12: whenever the operation of a subcommand returned an error, main
\* printed it after "Error: " and the process ended with a non-zero exit
\* status; the exit status is zero only when the operation succeeded.
C12_ErrorExitsNonZero ==
    last.op \in Subcommands
    => /\ (last.res # "ok") => (last.stderr = "Error: " /\ last.exit # 0)
       /\ (last.exit = 0) => (last.res = "ok")

\* C13: when the catalog is fetched and lists nothing for the platform,
\* update fails with an error and changes neither the state file, nor the
\* install directories, nor the link, while list succeeds.
C13_EmptyCatalogAsymmetry ==
    [][(last'.catalog /\ last'.seen = {} /\ last'.res # "CatalogError")
       => /\ Does("update", {})
             => (last'.res # "ok" /\ UNCHANGED <<versionsJson, dirs, goLink>>)
          /\ Does("list", {}) => (last'.res = "ok")]_vars

\* A state file that holds the empty record.
EmptyFile == Store(DefaultVersionFile)

\* The step is one the subcommand it reports can take from a state file that
\* holds the empty record, the rest of the disk being as it is: same result,
\* same record persisted, same install directories, same link.
AsOnEmptyRecord ==
    /\ \A v \in Versions :
        /\ Does("pin", {v})
           => \E r \in {PinVersion(EmptyFile, v)} :
                last'.res = r.res /\ RecNext = Load(r.file)
        /\ Does("unpin", {v})
           => \E r \in {UnpinVersion(EmptyFile, v)} :
                last'.res = r.res /\ RecNext = Load(r.file)
        /\ Does("enable", {v})
           => \E fault \in EnableFaults(EmptyFile, v) :
              \E r \in {EnableVersion(EmptyFile, goLink, v, fault)} :
                last'.res = r.res /\ RecNext = Load(r.file) /\ goLink' = r.link
        /\ Does("remove", {v})
           => \E fault \in {"none", "rmdir"} :
              \E r \in {RemoveVersion(EmptyFile, dirs, v, fault)} :
                last'.res = r.res /\ RecNext = Load(r.file) /\ dirs' = r.dirs
        /\ Does("install", {v})
           => \E net \in InstallReplies(v) :
              \E fault \in DownloadFaults(EmptyFile, v) :
              \E r \in {InstallVersion(EmptyFile, dirs, v, net, fault)} :
                /\ last'.res = r.res /\ last'.seen = net.versions
                /\ RecNext = Load(r.file) /\ dirs' = r.dirs
    /\ Does("update", {})
       => \E net \in NetReplies :
          \E fault \in Faults :
          \E r \in {UpdateVersions(EmptyFile, dirs, goLink, net, fault)} :
            /\ last'.res = r.res /\ last'.seen = net.versions
            /\ RecNext = Load(r.file) /\ dirs' = r.dirs /\ goLink' = r.link
    /\ Does("clean", {})
       => \E net \in NetReplies :
          \E f \in CleanFaults(EmptyFile, dirs, net) :
          \E r \in {CleanVersions(EmptyFile, dirs, net, f[1], f[2])} :
            /\ last'.res = r.res /\ last'.seen = net.versions
            /\ RecNext = Load(r.file) /\ dirs' = r.dirs
    /\ Does("list", {})
       => \E net \in NetReplies :
            last'.res = AvailableGoVersions(net).res /\ last'.seen = net.versions

\* C14: while no state file exists every operation behaves as it would on a
\* state file that holds the empty record (enabled none, installed empty,
\* pinned empty), and no operation deletes the state file.
C14_MissingFileIsEmptyRecord ==
    [][/\ versionsJson.present => versionsJson'.present
       /\ ~versionsJson.present => AsOnEmptyRecord]_vars

\* The part of C14 that is true of the code: where the goup directory exists
\* a missing state file is the empty record, and the state file is never
\* deleted.
C14_MissingFileInGoupDir ==
    [][/\ versionsJson.present => versionsJson'.present
       /\ (~versionsJson.present /\ goupDir) => AsOnEmptyRecord]_vars

\* Operations ran with the goup directory on disk and no state file in it.
C14_GoupDirWithoutFile ==
    /\ ~versionsJson.present
    /\ goupDir
    /\ dirs # {}
    /\ last.op = "pin"
    /\ last.res = "NotInstalled"

\* C15: for every version v with components up to MaxComponent, from_str of
\* the Display of v, which is "go<major>.<minor>.<patch>", is v; and from_str
\* of the text without the patch, "go<major>.<minor>", is what from_str
\* returns for that text followed by ".0", the version with patch 0.
C15_RoundTrip ==
    /\ (given = GoVersion(1, 10, 0) /\ Len(text) = 8)
       => text = <<"g", "o", "1", ".", "1", "0", ".", "0">>
    /\ (parsed # {} /\ text = Fmt(given))
       => parsed = {[res |-> "Ok", value |-> given]}
    /\ (parsed # {} /\ text = ShortText(given))
       => /\ parsed = {FromStr(ShortText(given) \o <<".", "0">>)}
          /\ parsed = {[res |-> "Ok", value |-> [given EXCEPT !.patch = 0]]}

\* C15 happens: go10.11.9 was written out and read back.
C15_Witness ==
    /\ given = GoVersion(10, 11, 9)
    /\ text = Fmt(given)
    /\ parsed = {[res |-> "Ok", value |-> given]}

\* C15 happens for a text without patch: "go1.10" was read as go1.10.0.
C15_WitnessShort ==
    /\ text = <<"g", "o", "1", ".", "1", "0">>
    /\ parsed = {[res |-> "Ok", value |-> GoVersion(1, 10, 0)]}

\* C16: when enable(v) of an installed v fails, it fails in the symlink step
\* (the removal of the old link failed with an error other than not-found,
\* or the new link could not be made) and the state file is left as it was,
\* enabled keeping its value; after a failed removal the link is as it was,
\* after a failed creation the old link is gone.
C16_EnableFailureKeepsRecord ==
    [][\A v \in Versions :
        (Does("enable", {v}) /\ v \in Rec.installed /\ last'.res # "ok")
        => /\ last'.res \in {"UnlinkFailed", "SymlinkFailed"}
           /\ versionsJson' = versionsJson
           /\ RecNext.enabled = Rec.enabled
           /\ dirs' = dirs
           /\ (last'.res = "UnlinkFailed") => (goLink' = goLink)
           /\ (last'.res = "SymlinkFailed") => (goLink' = {})]_vars

\* C16 happens: enable of an installed version failed to make the link; the
\* record still names the version enabled before, whose link is gone.
C16_Witness ==
    /\ last.op = "enable"
    /\ last.res = "SymlinkFailed"
    /\ last.v \subseteq Rec.installed
    /\ Rec.enabled # {}
    /\ Rec.enabled # last.v
    /\ goLink = {}

\* C17: a clean that fails at the deletion of a directory leaves the state
\* file as it was before the clean, the directories it deleted before the
\* failure stay deleted, and they were stale ones; a clean that completes
\* leaves installed within the install directories on disk.
C17_CleanFailsThenHeals ==
    [][Does("clean", {})
       => /\ (last'.res = "RemoveDirFailed")
             => /\ versionsJson' = versionsJson
                /\ dirs' = dirs \ last'.deleted
                /\ last'.deleted \subseteq dirs
                /\ last'.deleted \cap
                   (last'.seen \cup Rec.enabled \cup
                    (Rec.pinned \cap Rec.installed \cap dirs)) = {}
                /\ dirs' \ (last'.seen \cup Rec.enabled \cup Rec.pinned) # {}
          /\ (last'.res = "ok") => (RecNext.installed \subseteq dirs')]_vars

\* C17 happens: a clean deleted the directory of an installed version and
\* then failed at the next one; installed lists a version with no directory.
C17_Witness ==
    /\ last.op = "clean"
    /\ last.res = "RemoveDirFailed"
    /\ last.deleted # {}
    /\ last.deleted \cap Rec.installed # {}
    /\ ~(Rec.installed \subseteq dirs)

\* C18: an install(v) of a v that is not in installed and that fails, be it
\* for the catalog (v not listed, nothing listed, no reply) or for the
\* download or the unpacking of the archive, leaves v out of the persisted
\* installed set and the state file as it was, and deletes no directory; an
\* install(v) of such a v that succeeds has requested and unpacked the
\* archive, whether or not a directory of v was on disk, and leaves v in
\* installed with its directory on disk.
C18_FailedInstallNotRecorded ==
    [][\A v \in Versions :
        (Does("install", {v}) /\ v \notin Rec.installed)
        => /\ (last'.res # "ok")
              => /\ last'.res \in {"CatalogError", "NoVersionsForTarget",
                                   "NotAvailable", "DownloadFailed", "UnpackFailed"}
                 /\ v \notin RecNext.installed
                 /\ versionsJson' = versionsJson
                 /\ dirs \subseteq dirs' /\ dirs' \subseteq dirs \cup {v}
                 /\ (last'.res \in {"CatalogError", "NoVersionsForTarget",
                                    "NotAvailable", "DownloadFailed"})
                    => (dirs' = dirs)
                 /\ (last'.res = "NotAvailable") => (v \notin last'.seen)
           /\ (last'.res = "ok")
              => /\ last'.archive /\ last'.unpack
                 /\ v \in last'.seen
                 /\ RecNext.installed = Rec.installed \cup {v}
                 /\ dirs' = dirs \cup {v}]_vars

\* C18 happens: an install failed while unpacking; the version is not in
\* installed and a directory of it is on disk.
C18_Witness ==
    /\ last.op = "install"
    /\ last.res = "UnpackFailed"
    /\ last.v \cap Rec.installed = {}
    /\ last.v \subseteq dirs
    /\ last.v # {}

\* C19: whatever clean returns, installed and pinned after it are within
\* what they were before it, enabled and the link are what they were, no
\* directory appears, and a directory on disk of a version that is not in
\* installed but is in the allow-list (listed by the catalog, or enabled) is
\* neither deleted nor taken into installed.
C19_CleanAddsNothing ==
    [][Does("clean", {})
       => /\ RecNext.installed \subseteq Rec.installed
          /\ RecNext.pinned \subseteq Rec.pinned
          /\ RecNext.enabled = Rec.enabled
          /\ goLink' = goLink
          /\ dirs' \subseteq dirs
          /\ \A v \in dirs \ Rec.installed :
               v \in last'.seen \cup Rec.enabled
               => (v \in dirs' /\ v \notin RecNext.installed)]_vars

\* C19 happens: a clean that deleted a directory left alone the directory of
\* a version that the catalog lists and that is not in installed.
C19_Witness ==
    /\ last.op = "clean"
    /\ last.res = "ok"
    /\ last.deleted # {}
    /\ (dirs \cap last.seen) \ Rec.installed # {}

\* The invocation p has ended and reported success.
Succeeded(p) == proc[p].pc = "done" /\ proc[p].res = "ok"

\* C20: the last writer wins: every final store writes the record that the
\* storing invocation made from what it had loaded, whatever was written in
\* between, so that once all invocations have reported success the state
\* file holds the record of one of them alone.  (The lost update itself is
\* the state C20_LostUpdate.)
C20_LastWriterWins ==
    /\ []((\A p \in Procs : Succeeded(p)) => \E p \in Procs : Rec = proc[p].rec)
    /\ [][\A p \in Procs :
            (proc[p].pc = "store" /\ proc'[p].pc = "done")
            => (RecNext = proc[p].rec /\ proc'[p].res = "ok")]_vars

\* C20 happens: a pin(a) and, beside it, an install(b) or unpin(c) of another
\* version have both reported success, no other invocation ran, and a is not
\* pinned: the pin is lost.
C20_LostUpdate ==
    \E p, q \in Procs :
        /\ p # q
        /\ Succeeded(p) /\ Succeeded(q)
        /\ \A r \in Procs \ {p, q} : proc[r].pc = "idle"
        /\ proc[p].cmd = "pin"
        /\ proc[q].cmd \in {"install", "unpin"}
        /\ proc[q].v # proc[p].v
        /\ proc[p].v \cap Rec.pinned = {}

\* The other lost update: beside a pin, an install has reported success and
\* its version is on disk but not in installed.
C20_LostInstall ==
    \E p, q \in Procs :
        /\ p # q
        /\ Succeeded(p) /\ Succeeded(q)
        /\ \A r \in Procs \ {p, q} : proc[r].pc = "idle"
        /\ proc[p].cmd = "pin"
        /\ proc[q].cmd = "install"
        /\ proc[q].v \cap Rec.installed = {}
        /\ proc[q].v \subseteq dirs

\* C21: from_str is total: for every text it returns a version or the parse
\* error, the parse error exactly when PARSING_REGEX matches nowhere in the
\* text, and it never aborts, also when a number of the match is greater
\* than u32::MAX.
C21_ParseIsTotal ==
    \A r \in parsed :
        /\ r.res \in {"Ok", "Err"}
        /\ (r.res = "Err") <=> (\A i \in 1..Len(text) : ~MatchAt(text, i).found)

\* The part of C21 that is true of the code: from_str returns the parse
\* error exactly when PARSING_REGEX matches nowhere in the text; where it
\* matches, from_str returns a version if every number of the match is a u32
\* and aborts if one is not.
C21_ParseAbortsOnOverflow ==
    \A r \in parsed :
        LET starts == {i \in 1..Len(text) : MatchAt(text, i).found}
            m == MatchAt(text, CHOOSE i \in starts : \A j \in starts : i <= j)
            fits(ds) == Len(ds) < 10 \/ ds = LargeDigits
        IN  /\ (r.res = "Err") <=> (starts = {})
            /\ (r.res = "panic")
               <=> (starts # {} /\ ~(fits(m.major) /\ fits(m.minor) /\ fits(m.patch)))

\* from_str returned the parse error for a text.
C21_ErrReached == \E r \in parsed : r.res = "Err"

\* from_str returned a version with a ten-digit patch number.
C21_LargeReached == \E r \in parsed : r.res = "Ok" /\ r.value.patch > 1000000000

====
